---- MODULE Spec2Model ----
(***************************************************************************)
(* Model of src/src/simulation.py: the Simulation class that drives the    *)
(* day-by-day spread of a disease through a fixed population.              *)
(*                                                                         *)
(* Person (person.py) and StatisticsCollector (stats.py) are imported by   *)
(* simulation.py; their behaviour is taken from the specification of       *)
(* their interface.  The random source is a nondeterministic choice of the *)
(* values it can return.                                                   *)
(***************************************************************************)
EXTENDS Integers, Sequences, FiniteSets, TLC

\* ------------------------------------------------------------------ bounds
MaxPop == 3
MaxPeriod == 2
MaxContacts == 2
MaxDoses == 2
\* resolution of the modelled uniform draws: random() returns k/DrawSteps
DrawSteps == 4

\* --------------------------------------------------- exact rational numbers
\* Probabilities and rates are Python floats; the model keeps them as exact
\* fractions n/d with d > 0.
Rat(n, d) == [n |-> n, d |-> d]
RLess(a, b) == a.n * b.d < b.n * a.d
RLeq(a, b) == a.n * b.d <= b.n * a.d
RMul(a, b) == Rat(a.n * b.n, a.d * b.d)
RSub(a, b) == Rat(a.n * b.d - b.n * a.d, a.d * b.d)
REq(a, b) == a.n * b.d = b.n * a.d
Zero == Rat(0, 1)
One == Rat(1, 1)
Half == Rat(1, 2)
RMin(a, b) == IF RLeq(a, b) THEN a ELSE b
\* int(k * x) for a non-negative float x and a non-negative integer k
IntOfProduct(k, x) == (k * x.n) \div x.d
\* a <= x <= b
Between(a, x, b) == RLeq(a, x) /\ RLeq(x, b)

\* values random.random() can return: k/DrawSteps in [0, 1)
Draws == {Rat(k, DrawSteps) : k \in 0..(DrawSteps - 1)}

\* ------------------------------------------------------------ health states
Susceptible == "susceptible"
Infected == "infected"
Infectious == "infectious"
Recovered == "recovered"
Dead == "dead"
Statuses == {Susceptible, Infected, Infectious, Recovered, Dead}

\* Person(id=i): a new person is susceptible with no mitigation attribute set
Person(i) ==
  [id |-> i, status |-> Susceptible, days |-> 0,
   masked |-> FALSE, social_distancing |-> FALSE, vaccination_doses |-> 0]

is_susceptible(p) == p.status = Susceptible
is_infected(p) == p.status = Infected
is_infectious(p) == p.status = Infectious

\* variant of Person.infected() in which a further infection of an infected
\* person adds to the first: the incubation is a day further on
infected_compounding(p) ==
  IF p.status = Susceptible THEN [p EXCEPT !.status = Infected, !.days = 0]
  ELSE IF p.status = Infected THEN [p EXCEPT !.days = @ + 1]
  ELSE p

\* Person.infected(): transition to infected; a no-op on a person who is
\* already infected or immune
infected(p) ==
  IF is_susceptible(p) THEN [p EXCEPT !.status = Infected, !.days = 0] ELSE p

\* variant of the progression in which immunity wanes: a recovered person
\* becomes susceptible again
update_health_status_waning(p, incubation_period, infectious_period, mortality_rate, roll) ==
  IF is_infected(p) THEN
    IF p.days + 1 >= incubation_period
      THEN [p EXCEPT !.status = Infectious, !.days = 0]
      ELSE [p EXCEPT !.days = p.days + 1]
  ELSE IF is_infectious(p) THEN
    IF p.days + 1 >= infectious_period
      THEN [p EXCEPT !.status = IF RLess(roll, mortality_rate) THEN Dead ELSE Recovered,
                     !.days = 0]
      ELSE [p EXCEPT !.days = p.days + 1]
  ELSE IF p.status = Recovered THEN [p EXCEPT !.status = Susceptible]
  ELSE p

\* Person.update_health_status: one day of disease progression.  roll is the
\* value the shared random source returns for the mortality coin-flip.
update_health_status(p, incubation_period, infectious_period, mortality_rate, roll) ==
  IF is_infected(p) THEN
    IF p.days + 1 >= incubation_period
      THEN [p EXCEPT !.status = Infectious, !.days = 0]
      ELSE [p EXCEPT !.days = p.days + 1]
  ELSE IF is_infectious(p) THEN
    IF p.days + 1 >= infectious_period
      THEN [p EXCEPT !.status = IF RLess(roll, mortality_rate) THEN Dead ELSE Recovered,
                     !.days = 0]
      ELSE [p EXCEPT !.days = p.days + 1]
  ELSE p

\* ------------------------------------------------------------ configuration
\* initial_infected is an int, a float or a value of another type
IntArg(k) == [type |-> "int", val |-> Rat(k, 1)]
FloatArg(n, d) == [type |-> "float", val |-> Rat(n, d)]
OtherArg == [type |-> "str", val |-> Zero]

NoError == "none"
ErrPopulationSize == "Population size must be positive."
ErrInitialInfectedInt == "Initial infected must be between 0 and population size."
ErrInitialInfectedFloat == "If initial_infected is a float, it must be between 0 and 1."
ErrInitialInfectedType == "initial_infected must be an int or a float."
ErrInfectionRate == "Infection rate must be between 0 and 1."
ErrIncubationPeriod == "Incubation period must be positive."
ErrInfectiousPeriod == "Infectious period must be positive."
ErrBaseContacts == "Base contacts must be non-negative."
ErrSocialDistancingRate == "Social distancing rate must be between 0 and 1."
ErrMortalityRate == "Mortality rate must be between 0 and 1."

\* variant of the validation that looks at infectious_period before
\* incubation_period
ValidationErrorSwapped(c) ==
  IF c.population_size <= 0 THEN ErrPopulationSize
  ELSE IF c.initial_infected.type = "int"
          /\ ~(0 <= c.initial_infected.val.n
               /\ c.initial_infected.val.n <= c.population_size)
    THEN ErrInitialInfectedInt
  ELSE IF c.initial_infected.type = "float"
          /\ ~Between(Zero, c.initial_infected.val, One)
    THEN ErrInitialInfectedFloat
  ELSE IF c.initial_infected.type \notin {"int", "float"} THEN ErrInitialInfectedType
  ELSE IF ~Between(Zero, c.infection_rate, One) THEN ErrInfectionRate
  ELSE IF c.infectious_period <= 0 THEN ErrInfectiousPeriod
  ELSE IF c.incubation_period <= 0 THEN ErrIncubationPeriod
  ELSE IF c.base_contacts < 0 THEN ErrBaseContacts
  ELSE IF ~Between(Zero, c.social_distancing_rate, One) THEN ErrSocialDistancingRate
  ELSE IF ~Between(Zero, c.mortality_rate, One) THEN ErrMortalityRate
  ELSE NoError

\* the validation checks of __init__, in the order the code runs them; the
\* result is the message of the exception raised, or NoError
ValidationError(c) ==
  IF c.population_size <= 0 THEN ErrPopulationSize
  ELSE IF c.initial_infected.type = "int"
          /\ ~(0 <= c.initial_infected.val.n
               /\ c.initial_infected.val.n <= c.population_size)
    THEN ErrInitialInfectedInt
  ELSE IF c.initial_infected.type = "float"
          /\ ~Between(Zero, c.initial_infected.val, One)
    THEN ErrInitialInfectedFloat
  ELSE IF c.initial_infected.type \notin {"int", "float"} THEN ErrInitialInfectedType
  ELSE IF ~Between(Zero, c.infection_rate, One) THEN ErrInfectionRate
  ELSE IF c.incubation_period <= 0 THEN ErrIncubationPeriod
  ELSE IF c.infectious_period <= 0 THEN ErrInfectiousPeriod
  ELSE IF c.base_contacts < 0 THEN ErrBaseContacts
  ELSE IF ~Between(Zero, c.social_distancing_rate, One) THEN ErrSocialDistancingRate
  ELSE IF ~Between(Zero, c.mortality_rate, One) THEN ErrMortalityRate
  ELSE NoError

\* variant of the resolution that rounds the fraction of the population up
NumInitialInfectedCeil(c) ==
  IF c.initial_infected.type = "int"
    THEN c.initial_infected.val.n
    ELSE (c.population_size * c.initial_infected.val.n + c.initial_infected.val.d - 1)
           \div c.initial_infected.val.d

\* num_initial_infected as __init__ resolves it (validation has passed)
NumInitialInfected(c) ==
  IF c.initial_infected.type = "int"
    THEN c.initial_infected.val.n
    ELSE IntOfProduct(c.population_size, c.initial_infected.val)

\* random.sample(S, k): a list of k distinct members of S, in any order
Samples(S, k) ==
  {s \in [1..k -> S] : \A i, j \in 1..k : i # j => s[i] # s[j]}

\* [Person(id=i) for i in range(population_size)]
NewPopulation(n) == [i \in 1..n |-> Person(i - 1)]

\* for idx in ids: population[idx].infected()
RECURSIVE InfectAll(_, _)
InfectAll(pop, ids) ==
  IF ids = << >> THEN pop
  ELSE InfectAll([pop EXCEPT ![Head(ids) + 1] = infected(@)], Tail(ids))

\* -------------------------------------------------------------------- state
VARIABLES
  cfg,                     \* the arguments given to __init__
  pc,                      \* where the constructor / run() generator stands
  error,                   \* message of the exception __init__ raised
  population,              \* self.population
  day,                     \* self.day
  rng,                     \* self.random: "none", "seeded", "drawn"
  registered,              \* env.process(self.run()) has been called
  initial_infected_ids,    \* the sample drawn by __init__
  recorded,                \* day indices passed to record_day, in call order
  simulated,               \* number of completed simulate_day() calls
  tracing,                 \* whether the calls of simulate_day are written down
  calls,                   \* the calls simulate_day made today, in call order
  chance                   \* the value calculate_infection_chance returned

vars == <<cfg, pc, error, population, day, rng, registered,
          initial_infected_ids, recorded, simulated, tracing, calls, chance>>

\* value of self.day while the attribute does not exist
NoDay == 0 - 1

\* value of chance while calculate_infection_chance has not returned
NoChance == Rat(0 - 1, 1)

\* ------------------------------------------------------------ the call log
\* One step simulate_day took: the operation, the position of the person it
\* was made for (0: none), the positions it was given, whether a roll
\* succeeded, the target's record before and after, the positions whose
\* record the step changed, and the statuses it saw.
Nobody == Person(NoDay)

Call(op, who, whom, hit, before, after, changed, snap) ==
  [op |-> op, who |-> who, whom |-> whom, hit |-> hit, before |-> before,
   after |-> after, changed |-> changed, snap |-> snap]

SimpleCall(op, who) == Call(op, who, << >>, FALSE, Nobody, Nobody, {}, << >>)

\* the log of a run of steps, with one more step written down when tracing
Logged(run, entry) == IF run.tracing THEN Append(run.log, entry) ELSE run.log

\* ------------------------------------------------------- updating one day
\* update_health_statuses goes through the persons in population order;
\* rolls[i] is the draw person i takes
\* the persons whose update consumes a draw: those whose infectious period
\* ends today
Deciding(pop, c) ==
  {i \in DOMAIN pop : is_infectious(pop[i]) /\ pop[i].days + 1 >= c.infectious_period}

RollOf(rolls, i) == IF i \in DOMAIN rolls THEN rolls[i] ELSE Zero

\* variant of the update that drops the persons who have died
update_health_statuses_dropping_dead(pop, c, rolls) ==
  SelectSeq([i \in DOMAIN pop |->
               update_health_status(pop[i], c.incubation_period, c.infectious_period,
                                    c.mortality_rate, RollOf(rolls, i))],
            LAMBDA p : p.status # Dead)

\* for person in self.population: person.update_health_status(...)
update_health_statuses(pop, c, rolls) ==
  [i \in DOMAIN pop |->
     update_health_status(pop[i], c.incubation_period, c.infectious_period,
                          c.mortality_rate, RollOf(rolls, i))]

\* apply_policies: the policies are callables supplied by the caller; a mask
\* or distancing policy may set the person's flag either way, the
\* vaccination policy may give any persons one more dose.
apply_policies(pop, c, masks, dists, doses) ==
  [i \in DOMAIN pop |->
     [pop[i] EXCEPT
        !.masked = IF c.mask_policy THEN masks[i] ELSE @,
        !.social_distancing = IF c.dist_policy THEN dists[i] ELSE @,
        !.vaccination_doses =
           IF c.vac_policy /\ i \in doses /\ @ < MaxDoses THEN @ + 1 ELSE @]]

\* the calls update_health_statuses makes: one per person, in population order
update_calls(pop) ==
  [i \in 1..Len(pop) |-> SimpleCall("update_health_status", i)]

\* the calls the loop of apply_policies makes for persons i..n
RECURSIVE PersonPolicyCalls(_, _, _)
PersonPolicyCalls(c, i, n) ==
  IF i > n THEN << >>
  ELSE (IF c.mask_policy THEN <<SimpleCall("mask_policy", i)>> ELSE << >>)
       \o (IF c.dist_policy THEN <<SimpleCall("dist_policy", i)>> ELSE << >>)
       \o PersonPolicyCalls(c, i + 1, n)

\* variant of the loop that calls the vaccination policy inside it
RECURSIVE PersonPolicyCallsVaccinating(_, _, _)
PersonPolicyCallsVaccinating(c, i, n) ==
  IF i > n THEN << >>
  ELSE (IF c.mask_policy THEN <<SimpleCall("mask_policy", i)>> ELSE << >>)
       \o (IF c.dist_policy THEN <<SimpleCall("dist_policy", i)>> ELSE << >>)
       \o (IF c.vac_policy THEN <<SimpleCall("vac_policy", 0)>> ELSE << >>)
       \o PersonPolicyCallsVaccinating(c, i + 1, n)

\* variant of apply_policies with the vaccination call indented into the loop
policy_calls_vaccinating_each(pop, c) ==
  PersonPolicyCallsVaccinating(c, 1, Len(pop))

\* the calls apply_policies makes: the loop, then the vaccination policy
policy_calls(pop, c) ==
  PersonPolicyCalls(c, 1, Len(pop))
  \o (IF c.vac_policy THEN <<SimpleCall("vac_policy", 0)>> ELSE << >>)

\* ---------------------------------------------------------- infection model
\* variant of the mask effect that takes the effectiveness off the rate
apply_mask_effect_subtracting(base_rate, person, c) ==
  IF person.masked THEN RSub(base_rate, c.mask_effectiveness) ELSE base_rate

\* variant of the vaccine effect that knows full protection for two doses only
apply_vaccine_effect_exactly_two(base_rate, person, c) ==
  IF person.vaccination_doses = 1 THEN RMul(base_rate, c.partial_vaccine_effectiveness)
  ELSE IF person.vaccination_doses = 2 THEN RMul(base_rate, c.full_vaccine_effectiveness)
  ELSE base_rate

apply_mask_effect(base_rate, person, c) ==
  IF person.masked THEN RMul(base_rate, c.mask_effectiveness) ELSE base_rate

apply_vaccine_effect(base_rate, person, c) ==
  IF person.vaccination_doses = 1 THEN RMul(base_rate, c.partial_vaccine_effectiveness)
  ELSE IF person.vaccination_doses >= 2 THEN RMul(base_rate, c.full_vaccine_effectiveness)
  ELSE base_rate

calculate_infection_chance(c, infectious_person, susceptible_person) ==
  LET r0 == c.infection_rate
      r1 == apply_mask_effect(r0, infectious_person, c)
      r2 == apply_mask_effect(r1, susceptible_person, c)
      r3 == apply_vaccine_effect(r2, susceptible_person, c)
  IN  RMin(r3, One)

\* -------------------------------------------------------------- interactions
Max(a, b) == IF a >= b THEN a ELSE b
Min(a, b) == IF a <= b THEN a ELSE b

\* positions (1-based) of the persons of pop, in population order
Positions(pop) == [i \in 1..Len(pop) |-> i]

\* variant of the pool that takes every person
SusceptiblePopulationEveryone(pop) == Positions(pop)

\* variant of the sources that takes the infected persons too
InfectiousPopulationWithInfected(pop) ==
  SelectSeq(Positions(pop), LAMBDA i : is_infected(pop[i]) \/ is_infectious(pop[i]))

\* variant of the number of contacts without the minimum of one
NumContactsWithoutMinimum(person, c, pool_size) ==
  LET wanted == IF person.social_distancing
                  THEN IntOfProduct(c.base_contacts, c.social_distancing_rate)
                  ELSE c.base_contacts
  IN  IF wanted <= pool_size THEN wanted ELSE pool_size

\* susceptible_population = [p for p in self.population if p.is_susceptible]
SusceptiblePopulation(pop) ==
  SelectSeq(Positions(pop), LAMBDA i : is_susceptible(pop[i]))
\* infectious_population = [p for p in self.population if p.is_infectious]
InfectiousPopulation(pop) ==
  SelectSeq(Positions(pop), LAMBDA i : is_infectious(pop[i]))

\* the number of contacts of one infectious person, given the pool's size
NumContacts(person, c, pool_size) ==
  LET wanted == IF person.social_distancing
                  THEN IntOfProduct(c.base_contacts, c.social_distancing_rate)
                  ELSE c.base_contacts
  IN  Min(Max(1, wanted), pool_size)

\* A run of the interaction phase so far: the population, the steps written
\* down, and whether steps are written down.
\* for susceptible_person in contacts: roll, and infect on success
RECURSIVE Transmit(_, _, _, _, _)
Transmit(run, c, ip, contacts, rolls) ==
  IF contacts = << >> THEN run
  ELSE LET pop == run.pop
           sp == Head(contacts)
           rate == calculate_infection_chance(c, pop[ip], pop[sp])
           hit == RLess(Head(rolls), rate)
           next == IF hit THEN [pop EXCEPT ![sp] = infected(@)] ELSE pop
           entry == Call("roll", ip, <<sp>>, hit, pop[sp], next[sp],
                         {i \in DOMAIN pop : next[i] # pop[i]}, << >>)
       IN  Transmit([run EXCEPT !.pop = next, !.log = Logged(run, entry)],
                    c, ip, Tail(contacts), Tail(rolls))

SeqOf(f, k) == [i \in 1..k |-> f[i]]
Range(s) == {s[i] : i \in DOMAIN s}

\* the runs one infectious person's contacts can leave behind
ContactOutcomes(run, c, ip, pool) ==
  LET k == NumContacts(run.pop[ip], c, Len(pool))
  IN  IF k = 0 THEN {run}
      ELSE {Transmit([run EXCEPT !.log =
                        Logged(run, Call("sample", ip, SeqOf(contacts, k), FALSE,
                                         Nobody, Nobody, {}, << >>))],
                     c, ip, SeqOf(contacts, k), SeqOf(rolls, k)) :
              contacts \in Samples(Range(pool), k), rolls \in [1..k -> Draws]}

\* the loop over infectious_population; the pool is the one computed before
\* the loop
RECURSIVE InteractionOutcomes(_, _, _, _)
InteractionOutcomes(run, c, pool, infectious) ==
  IF infectious = << >> THEN {run}
  ELSE UNION {InteractionOutcomes(next, c, pool, Tail(infectious)) :
                next \in ContactOutcomes(run, c, Head(infectious), pool)}

\* simulate_interactions from population pop, the steps so far being log
simulate_interactions(pop, c, log, tr) ==
  LET pool == SusceptiblePopulation(pop)
      run == [pop |-> pop, log |-> log, tracing |-> tr]
      entry == Call("pools", 0, pool, FALSE, Nobody, Nobody, {},
                    [i \in DOMAIN pop |-> pop[i].status])
  IN  InteractionOutcomes([run EXCEPT !.log = Logged(run, entry)], c, pool,
                          InfectiousPopulation(pop))

\* variant of the stopping test that looks at infectious persons only
active_infections_infectious_only(pop) ==
  \E i \in DOMAIN pop : is_infectious(pop[i])

\* variant of the stopping test that also waits for susceptible persons
active_infections_or_susceptible(pop) ==
  \E i \in DOMAIN pop :
    is_susceptible(pop[i]) \/ is_infected(pop[i]) \/ is_infectious(pop[i])

\* any(person.is_infected or person.is_infectious for person in population)
active_infections(pop) ==
  \E i \in DOMAIN pop : is_infected(pop[i]) \/ is_infectious(pop[i])

\* ------------------------------------------------------------ initial states
Rates == {Zero, Half, One}

EffectivenessDefaults ==
  [mask_effectiveness |-> Half,
   partial_vaccine_effectiveness |-> Rat(7, 10),
   full_vaccine_effectiveness |-> Rat(3, 10)]

Config(n, ii, ir, inc, inf, bc, sdr, mr, mp, dp, vp, sc) ==
  [population_size |-> n, initial_infected |-> ii, infection_rate |-> ir,
   incubation_period |-> inc, infectious_period |-> inf, base_contacts |-> bc,
   social_distancing_rate |-> sdr, mortality_rate |-> mr,
   mask_effectiveness |-> EffectivenessDefaults.mask_effectiveness,
   partial_vaccine_effectiveness |-> EffectivenessDefaults.partial_vaccine_effectiveness,
   full_vaccine_effectiveness |-> EffectivenessDefaults.full_vaccine_effectiveness,
   mask_policy |-> mp, dist_policy |-> dp, vac_policy |-> vp,
   statistics_collector |-> sc]

\* configurations without policies: every size, every count, the extreme and
\* a middle rate, the shortest and the longest period
PlainConfigs ==
  {Config(n, ii, ir, inc, inf, bc, Half, mr, FALSE, FALSE, FALSE, n # 1) :
     n \in 0..MaxPop,
     ii \in {IntArg(k) : k \in 0..MaxPop} \cup {FloatArg(1, 2)},
     ir \in Rates, inc \in {1, MaxPeriod}, inf \in {1, MaxPeriod},
     bc \in {0, 1, MaxContacts}, mr \in Rates}

\* configurations with one policy: one initial case in a population of
\* three; every distancing rate where distancing is decided
OnePolicyConfigs ==
  {Config(3, IntArg(1), ir, 1, 2, 2, sdr, Half, FALSE, TRUE, FALSE, TRUE) :
     ir \in {Half, One}, sdr \in Rates}
  \cup
  {Config(3, IntArg(1), ir, 1, 2, 2, Half, Half, mp, FALSE, ~mp, TRUE) :
     ir \in {Half, One}, mp \in BOOLEAN}

\* configurations with every policy, in a population of two
AllPolicyConfigs ==
  {Config(2, IntArg(1), ir, 1, 1, 2, Half, Half, TRUE, TRUE, TRUE, TRUE) :
     ir \in {Half, One}}

PolicyConfigs == OnePolicyConfigs \cup AllPolicyConfigs

\* the configurations the runs are explored for
RunConfigs == PlainConfigs \cup PolicyConfigs

\* before __init__ runs nothing of the object exists
Fresh ==
  /\ pc = "new"
  /\ error = NoError
  /\ population = << >>
  /\ day = NoDay
  /\ rng = "none"
  /\ registered = FALSE
  /\ initial_infected_ids = << >>
  /\ recorded = << >>
  /\ simulated = 0
  /\ calls = << >>
  /\ chance = NoChance

Init == cfg \in RunConfigs /\ tracing = FALSE /\ Fresh

\* ------------------------------------------------------------------ actions
\* variant of __init__ that checks mortality_rate only after the population
\* has been built and sampled
ConstructCheckingMortalityLate ==
  /\ pc = "new"
  /\ LET early == ValidationError([cfg EXCEPT !.mortality_rate = Zero])
         err == ValidationError(cfg) IN
     IF early # NoError
       THEN /\ pc' = "rejected"
            /\ error' = early
            /\ UNCHANGED <<population, day, rng, registered, initial_infected_ids>>
       ELSE \E ids \in Samples(0..(cfg.population_size - 1), NumInitialInfected(cfg)) :
              /\ population' = InfectAll(NewPopulation(cfg.population_size), ids)
              /\ day' = 0
              /\ rng' = "seeded"
              /\ initial_infected_ids' = ids
              /\ registered' = (err = NoError)
              /\ pc' = IF err = NoError THEN "scheduled" ELSE "rejected"
              /\ error' = err
  /\ UNCHANGED <<cfg, tracing, chance, calls, recorded, simulated>>

\* Simulation.__init__
Construct ==
  /\ pc = "new"
  /\ LET err == ValidationError(cfg) IN
     IF err # NoError
       THEN /\ pc' = "rejected"
            /\ error' = err
            /\ UNCHANGED <<population, day, rng, registered, initial_infected_ids>>
       ELSE \E ids \in Samples(0..(cfg.population_size - 1), NumInitialInfected(cfg)) :
              /\ population' = InfectAll(NewPopulation(cfg.population_size), ids)
              /\ day' = 0
              /\ rng' = "seeded"
              /\ initial_infected_ids' = ids
              /\ registered' = TRUE
              /\ pc' = "scheduled"
              /\ error' = NoError
  /\ UNCHANGED <<cfg, tracing, chance, calls, recorded, simulated>>

\* the environment starts the registered process: run() enters its loop
Start ==
  /\ pc = "scheduled"
  /\ pc' = "update"
  /\ UNCHANGED <<cfg, tracing, chance, calls, error, population, day, rng, registered,
                 initial_infected_ids, recorded, simulated>>

\* simulate_day, first phase
UpdateHealthStatuses ==
  /\ pc = "update"
  /\ \E rolls \in [Deciding(population, cfg) -> Draws] :
       population' = update_health_statuses(population, cfg, rolls)
  /\ calls' = IF tracing THEN update_calls(population) ELSE calls
  /\ pc' = "policies"
  /\ UNCHANGED <<cfg, tracing, chance, error, day, rng, registered, initial_infected_ids,
                 recorded, simulated>>

\* what a per-person policy may decide for each person; a policy that is not
\* configured decides nothing
PolicyFlags(configured, pop) ==
  IF configured THEN [DOMAIN pop -> BOOLEAN] ELSE {[i \in DOMAIN pop |-> FALSE]}

\* simulate_day, second phase
ApplyPolicies ==
  /\ pc = "policies"
  /\ \E masks \in PolicyFlags(cfg.mask_policy, population),
        dists \in PolicyFlags(cfg.dist_policy, population),
        doses \in IF cfg.vac_policy THEN SUBSET DOMAIN population ELSE {{}} :
       population' = apply_policies(population, cfg, masks, dists, doses)
  /\ calls' = IF tracing THEN calls \o policy_calls(population, cfg) ELSE calls
  /\ pc' = "interact"
  /\ UNCHANGED <<cfg, tracing, chance, error, day, rng, registered, initial_infected_ids,
                 recorded, simulated>>

\* simulate_day, third phase; simulate_day returns
SimulateInteractions ==
  /\ pc = "interact"
  /\ \E outcome \in simulate_interactions(population, cfg, calls, tracing) :
       population' = outcome.pop /\ calls' = outcome.log
  /\ simulated' = simulated + 1
  /\ pc' = "record"
  /\ UNCHANGED <<cfg, tracing, chance, error, day, rng, registered, initial_infected_ids, recorded>>

\* StatisticsCollector.record_day(day, population)
record_day(log, d) == Append(log, d)

\* variant of the recording step that runs after the day has been counted
RecordDayAfterIncrement ==
  /\ pc = "record"
  /\ recorded' = IF cfg.statistics_collector THEN record_day(recorded, day + 1)
                                             ELSE recorded
  /\ pc' = "check"
  /\ UNCHANGED <<cfg, tracing, chance, calls, error, population, day, rng, registered,
                 initial_infected_ids, simulated>>

\* run(): the collector, when there is one, is told of the day
RecordDay ==
  /\ pc = "record"
  /\ recorded' = IF cfg.statistics_collector THEN record_day(recorded, day) ELSE recorded
  /\ pc' = "check"
  /\ UNCHANGED <<cfg, tracing, chance, calls, error, population, day, rng, registered,
                 initial_infected_ids, simulated>>

\* the longest run: each person is infected at most once
MaxDay == MaxPop * 2 * MaxPeriod

\* variant of the loop's end that counts the day before testing for the end
CheckActiveCountingFirst ==
  /\ pc = "check"
  /\ day < MaxDay + 1
  /\ day' = day + 1
  /\ pc' = IF ~active_infections(population) THEN "done" ELSE "yield"
  /\ UNCHANGED <<cfg, tracing, chance, calls, error, population, rng, registered,
                 initial_infected_ids, recorded, simulated>>

\* run(): break when no infection is active, else count the day and yield
CheckActive ==
  /\ pc = "check"
  /\ IF ~active_infections(population)
       THEN pc' = "done" /\ day' = day
       ELSE day < MaxDay /\ day' = day + 1 /\ pc' = "yield"
  /\ UNCHANGED <<cfg, tracing, chance, calls, error, population, rng, registered,
                 initial_infected_ids, recorded, simulated>>

\* the environment's timeout(1) elapses and run() resumes
Resume ==
  /\ pc = "yield"
  /\ pc' = "update"
  /\ UNCHANGED <<cfg, tracing, chance, calls, error, population, day, rng, registered,
                 initial_infected_ids, recorded, simulated>>

Next ==
  \/ Construct
  \/ Start
  \/ UpdateHealthStatuses
  \/ ApplyPolicies
  \/ SimulateInteractions
  \/ RecordDay
  \/ CheckActive
  \/ Resume

Spec == Init /\ [][Next]_vars

\* -------------------------------------------------- construction on its own
\* rates on the ends of and outside [0, 1], and fractions inside it
EdgeRates == {Rat(0 - 1, 2), Zero, One, Rat(3, 2)}
Fractions == {Rat(1, 4), Half, Rat(3, 4)}

\* combinations of valid and invalid arguments: every field takes values on
\* both sides of its rule
CtorConfigs ==
  {Config(n, ii, ir, inc, inf, bc, sdr, mr, FALSE, FALSE, FALSE, FALSE) :
     n \in (0 - 1)..MaxPop,
     ii \in {IntArg(k) : k \in (0 - 1)..(MaxPop + 1)}
            \cup {[type |-> "float", val |-> r] : r \in EdgeRates \cup Fractions}
            \cup {OtherArg},
     ir \in EdgeRates, inc \in {0, 1, MaxPeriod}, inf \in {0, 1, MaxPeriod},
     bc \in {0 - 1, 0, MaxContacts}, sdr \in EdgeRates, mr \in EdgeRates}

InitCtor == cfg \in CtorConfigs /\ tracing = FALSE /\ Fresh

SpecCtor == InitCtor /\ [][Construct]_vars

\* ------------------------------------------ simulate_day, call by call
\* configurations without policies, in populations of one to three: every
\* number of initial cases, given as a count or as a fraction
TracePlainConfigs ==
  {Config(n, ii, ir, inc, inf, bc, Half, Half, FALSE, FALSE, FALSE, TRUE) :
     n \in 1..3,
     ii \in {IntArg(k) : k \in 0..3} \cup {FloatArg(1, 4)},
     ir \in {Half, One}, inc \in {1, MaxPeriod}, inf \in {1, MaxPeriod},
     bc \in {0, 1, MaxContacts}}

\* configurations with any choice of policies, in a population of two with
\* no or one initial case
TracePolicyConfigs ==
  {Config(2, IntArg(k), One, 1, 1, 2, Half, Half, mp, dp, vp, sc) :
     k \in {0, 1}, mp \in BOOLEAN, dp \in BOOLEAN, vp \in BOOLEAN, sc \in BOOLEAN}

\* configurations with a distancing policy, in a population of three: every
\* distancing rate and every number of base contacts
TraceDistancingConfigs ==
  {Config(3, IntArg(1), One, 1, 1, bc, sdr, Zero, FALSE, TRUE, FALSE, TRUE) :
     bc \in {0, 1, MaxContacts}, sdr \in Rates}

TraceConfigs == TracePlainConfigs \cup TracePolicyConfigs \cup TraceDistancingConfigs

InitCalls == cfg \in TraceConfigs /\ tracing = TRUE /\ Fresh

\* the runs of Spec with the calls of every day written down
SpecCalls == InitCalls /\ [][Next]_vars

\* ------------------------------------- calculate_infection_chance on its own
\* the values a rate or an effectiveness in [0, 1] is taken from
UnitRates == {Rat(k, DrawSteps) : k \in 0..DrawSteps}

\* a configuration with the given infection rate and effectiveness factors
ChanceConfig(ir, me, pve, fve) ==
  [Config(2, IntArg(1), ir, 1, 1, 1, Half, Zero, FALSE, FALSE, FALSE, FALSE)
     EXCEPT !.mask_effectiveness = me,
            !.partial_vaccine_effectiveness = pve,
            !.full_vaccine_effectiveness = fve]

ChanceConfigs ==
  {ChanceConfig(ir, me, pve, fve) :
     ir \in {Zero, Half, One}, me \in UnitRates, pve \in UnitRates, fve \in UnitRates}

\* the pairs the function is called for: an infectious and a susceptible
\* person with any mask flags and any numbers of doses
ChancePairs ==
  {<<[Person(0) EXCEPT !.status = Infectious, !.masked = mi, !.vaccination_doses = di],
     [Person(1) EXCEPT !.masked = ms, !.vaccination_doses = ds]>> :
     mi \in BOOLEAN, ms \in BOOLEAN, di \in 0..(MaxDoses + 1), ds \in 0..(MaxDoses + 1)}

\* a simulation on which calculate_infection_chance is about to be called
InitChance ==
  /\ cfg \in ChanceConfigs
  /\ population \in ChancePairs
  /\ pc = "chance"
  /\ error = NoError
  /\ day = 0
  /\ rng = "seeded"
  /\ registered = TRUE
  /\ initial_infected_ids = <<0>>
  /\ recorded = << >>
  /\ simulated = 0
  /\ tracing = FALSE
  /\ calls = << >>
  /\ chance = NoChance

\* calculate_infection_chance(infectious_person, susceptible_person) returns
Evaluate ==
  /\ pc = "chance"
  /\ chance' = calculate_infection_chance(cfg, population[1], population[2])
  /\ pc' = "chance returned"
  /\ UNCHANGED <<cfg, tracing, calls, error, population, day, rng, registered,
                 initial_infected_ids, recorded, simulated>>

SpecChance == InitChance /\ [][Evaluate]_vars

\* ================================================================== claims
\* the fields __init__ validates, in the order the specification lists them
Fields ==
  <<"population_size", "initial_infected", "infection_rate", "incubation_period",
    "infectious_period", "base_contacts", "social_distancing_rate", "mortality_rate">>

\* the rule of field f is violated by configuration c
Violated(c, f) ==
  CASE f = "population_size" -> ~(c.population_size > 0)
    [] f = "initial_infected" ->
         \/ c.initial_infected.type = "int"
            /\ (c.initial_infected.val.n < 0
                \/ c.initial_infected.val.n > c.population_size)
         \/ c.initial_infected.type = "float"
            /\ (RLess(c.initial_infected.val, Zero) \/ RLess(One, c.initial_infected.val))
         \/ c.initial_infected.type \notin {"int", "float"}
    [] f = "infection_rate" ->
         RLess(c.infection_rate, Zero) \/ RLess(One, c.infection_rate)
    [] f = "incubation_period" -> ~(c.incubation_period > 0)
    [] f = "infectious_period" -> ~(c.infectious_period > 0)
    [] f = "base_contacts" -> ~(c.base_contacts >= 0)
    [] f = "social_distancing_rate" ->
         RLess(c.social_distancing_rate, Zero) \/ RLess(One, c.social_distancing_rate)
    [] f = "mortality_rate" ->
         RLess(c.mortality_rate, Zero) \/ RLess(One, c.mortality_rate)

\* the errors that name field f
ErrorsOf(f) ==
  CASE f = "population_size" -> {ErrPopulationSize}
    [] f = "initial_infected" ->
         {ErrInitialInfectedInt, ErrInitialInfectedFloat, ErrInitialInfectedType}
    [] f = "infection_rate" -> {ErrInfectionRate}
    [] f = "incubation_period" -> {ErrIncubationPeriod}
    [] f = "infectious_period" -> {ErrInfectiousPeriod}
    [] f = "base_contacts" -> {ErrBaseContacts}
    [] f = "social_distancing_rate" -> {ErrSocialDistancingRate}
    [] f = "mortality_rate" -> {ErrMortalityRate}

ViolatedFields(c) == {i \in DOMAIN Fields : Violated(c, Fields[i])}

Constructed == pc \notin {"new", "rejected"}

\* C4: construction fails exactly when some field's rule is violated, the
\* error raised is one of the first violated field in the order of Fields,
\* and no error belongs to two fields.
C4_ValidationOrder ==
  /\ \A i, j \in DOMAIN Fields : i # j => ErrorsOf(Fields[i]) \cap ErrorsOf(Fields[j]) = {}
  /\ pc # "new" =>
       /\ (pc = "rejected") <=> (ViolatedFields(cfg) # {})
       /\ pc = "rejected" =>
            \E i \in ViolatedFields(cfg) :
              /\ \A j \in ViolatedFields(cfg) : i <= j
              /\ error \in ErrorsOf(Fields[i])
       /\ pc # "rejected" => error = NoError

\* several fields are wrong and the error is that of a field in the middle
C4_Witness ==
  /\ pc = "rejected"
  /\ Cardinality(ViolatedFields(cfg)) >= 3
  /\ error = ErrIncubationPeriod
  /\ Violated(cfg, "infectious_period")

\* C5: after a failed construction nothing of the simulation exists: no
\* population, no day counter, no random source and no sample drawn from it,
\* no process registered with the environment, nothing recorded.
C5_NothingOnFailure ==
  pc = "rejected" =>
    /\ population = << >>
    /\ day = NoDay
    /\ rng = "none"
    /\ initial_infected_ids = << >>
    /\ registered = FALSE
    /\ recorded = << >>
    /\ simulated = 0

\* the last rule alone is violated, and construction has failed
C5_Witness ==
  /\ pc = "rejected"
  /\ ViolatedFields(cfg) = {Len(Fields)}
  /\ error = ErrMortalityRate

\* the count the specification gives for the initially infected persons
ExpectedInitialInfected(c) ==
  IF c.initial_infected.type = "int" THEN c.initial_infected.val.n
  ELSE CHOOSE k \in 0..c.population_size :
         /\ k * c.initial_infected.val.d <= c.population_size * c.initial_infected.val.n
         /\ c.population_size * c.initial_infected.val.n < (k + 1) * c.initial_infected.val.d

StatusCount(pop, st) == Cardinality({i \in DOMAIN pop : pop[i].status = st})

\* C6: a successful construction leaves population_size persons with ids
\* 0..N-1 in order, day 0, exactly the resolved number of persons infected
\* (the integer given, or the floor of population_size times the fraction)
\* and every other person susceptible.
C6_InitialPopulation ==
  pc = "scheduled" =>
    /\ Len(population) = cfg.population_size
    /\ \A i \in DOMAIN population : population[i].id = i - 1
    /\ day = 0
    /\ StatusCount(population, Infected) = ExpectedInitialInfected(cfg)
    /\ StatusCount(population, Susceptible)
         = cfg.population_size - ExpectedInitialInfected(cfg)
    /\ Cardinality(Range(initial_infected_ids)) = ExpectedInitialInfected(cfg)

\* a fraction whose product with the size is not a whole number
C6_Witness ==
  /\ pc = "scheduled"
  /\ cfg.initial_infected.type = "float"
  /\ (cfg.population_size * cfg.initial_infected.val.n) % cfg.initial_infected.val.d # 0
  /\ StatusCount(population, Infected) = 2

\* C1: when run() has terminated no person is infected or infectious.
C1_NoActiveInfectionAtEnd ==
  pc = "done" =>
    \A i \in DOMAIN population : ~is_infected(population[i]) /\ ~is_infectious(population[i])

\* run() has ended after an outbreak in which somebody was infected by contact
C1_Witness ==
  /\ pc = "done"
  /\ day >= 2
  /\ \E i \in DOMAIN population :
       /\ population[i].status \in {Recovered, Dead}
       /\ population[i].id \notin Range(initial_infected_ids)

\* position of pc in the loop of run()
PcIndex ==
  CASE pc \in {"scheduled", "yield"} -> 0
    [] pc = "update" -> 1
    [] pc = "policies" -> 2
    [] pc = "interact" -> 3
    [] pc = "record" -> 4
    [] pc = "check" -> 5
    [] OTHER -> 6

\* how far run() has got: the day, then the position within the day
Progress == 7 * day + PcIndex

\* the last day a run can reach: each person is infected at most once, and a
\* person infected on one day is recovered or dead incubation_period +
\* infectious_period updates later
LastDay(c) == c.population_size * (c.incubation_period + c.infectious_period - 1)

\* some action of Next can be taken (for SimulateInteractions: the set it
\* chooses the next population from is not empty)
CanStep ==
  \/ ENABLED (Start \/ UpdateHealthStatuses \/ ApplyPolicies \/ RecordDay
                \/ CheckActive \/ Resume)
  \/ pc = "interact" /\ simulate_interactions(population, cfg, calls, tracing) # {}

\* C2: once a valid configuration has been constructed run() terminates,
\* whatever the draws: until it has terminated it can always take its next
\* step, every step takes it further, and it never gets beyond day LastDay;
\* so a day is reached on which the loop exits.
C2_RunTerminates ==
  /\ [](Constructed /\ pc # "done" => CanStep)
  /\ [](Constructed => day <= LastDay(cfg))
  /\ [][Constructed => Progress' > Progress]_vars

\* run() has ended after the whole of the largest population went through
\* the disease, one person catching it from the other
C2_Witness ==
  /\ pc = "done"
  /\ cfg.population_size = MaxPop
  /\ NumInitialInfected(cfg) = 1
  /\ \A i \in DOMAIN population : population[i].status \in {Recovered, Dead}

\* C3: with base_contacts = 0 nobody who was susceptible after construction
\* is ever infected.
C3_NoTransmissionWithoutContacts ==
  (Constructed /\ cfg.base_contacts = 0) =>
    \A i \in DOMAIN population :
      ~is_susceptible(population[i]) => population[i].id \in Range(initial_infected_ids)

\* 0, 1, ..., n-1
DayIndices(n) == [i \in 1..n |-> i - 1]

\* C7: with a collector, record_day is called once for every simulated day,
\* after the day's interactions and before the day's termination test, with
\* the day's index: the indices recorded are 0, 1, 2, ... without gap or
\* repeat, and the last one is the current day when the test is made.
C7_RecordedOncePerDay ==
  (Constructed /\ cfg.statistics_collector) =>
    /\ recorded = DayIndices(Len(recorded))
    /\ Len(recorded) = IF pc = "record" THEN simulated - 1 ELSE simulated
    /\ pc \in {"check", "done"} => recorded = DayIndices(day + 1)

\* a run of several days has ended and every day of it was recorded
C7_Witness ==
  /\ pc = "done"
  /\ cfg.statistics_collector
  /\ Len(recorded) >= 3
  /\ recorded[Len(recorded)] = day

\* C8 as stated: the counter is raised once for every execution of
\* simulate_day, so whenever run() is suspended or over it equals the number
\* of executions.
C8_CountsEveryExecution ==
  pc \in {"scheduled", "yield", "done"} => day = simulated

\* C8, amended: the counter starts at 0, never decreases, is never reset and
\* changes only by one at the end of a loop iteration that found an active
\* infection; the last execution of simulate_day is not counted, so during
\* and after the k-th execution the counter is k - 1.
C8_DayCounter ==
  /\ [](pc = "scheduled" => day = 0)
  /\ [](Constructed =>
          day = IF pc \in {"record", "check", "done"} THEN simulated - 1 ELSE simulated)
  /\ [][Constructed =>
          \/ day' = day
          \/ /\ day' = day + 1
             /\ pc = "check" /\ pc' = "yield"
             /\ active_infections(population)]_vars

\* run() has ended after several days
C8_Witness ==
  /\ pc = "done"
  /\ day >= 2
  /\ simulated = day + 1

\* C9: from construction on the population keeps its population_size
\* entries, with the same ids in the same order.
C9_PopulationFixed ==
  Constructed =>
    /\ Len(population) = cfg.population_size
    /\ \A i \in DOMAIN population : population[i].id = i - 1

\* a person has died and the run went on
C9_Witness ==
  /\ pc = "update"
  /\ \E i \in DOMAIN population : population[i].status = Dead
  /\ \E i \in DOMAIN population : population[i].status = Infectious

\* one step of the health status: stay, or move one stage forward
Forward(a, b) ==
  \/ a = b
  \/ a = Susceptible /\ b = Infected
  \/ a = Infected /\ b = Infectious
  \/ a = Infectious /\ b \in {Recovered, Dead}

\* C10: every step leaves each person's status where it is or moves it one
\* stage forward along susceptible, infected, infectious, recovered or dead.
C10_StatusOnlyForward ==
  [][Constructed =>
       /\ DOMAIN population' = DOMAIN population
       /\ \A i \in DOMAIN population :
            Forward(population[i].status, population'[i].status)]_vars

\* during the interactions of a day, somebody infected by contact on an
\* earlier day is infectious, somebody has recovered and somebody is still
\* susceptible
C10_Witness ==
  /\ pc = "interact"
  /\ \E i \in DOMAIN population :
       /\ population[i].status = Infectious
       /\ population[i].id \notin Range(initial_infected_ids)
  /\ \E i \in DOMAIN population : population[i].status = Recovered
  /\ \E i \in DOMAIN population : population[i].status = Susceptible

\* ------------------------------------------------------------------ C12
\* every factor of the configuration lies in [0, 1]
FactorsInUnit(c) ==
  \A x \in {c.infection_rate, c.mask_effectiveness,
             c.partial_vaccine_effectiveness, c.full_vaccine_effectiveness} :
    Between(Zero, x, One)

\* C12: with the infection rate and the three effectiveness factors in
\* [0, 1], calculate_infection_chance returns a value in [0, 1] for every
\* pair of persons, whatever their mask flags and numbers of doses.
C12_ChanceInUnitInterval ==
  pc = "chance returned" /\ FactorsInUnit(cfg) => Between(Zero, chance, One)

\* both persons masked, the susceptible one fully vaccinated, and the result
\* strictly between 0 and 1
C12_Witness ==
  /\ pc = "chance returned"
  /\ FactorsInUnit(cfg)
  /\ population[1].masked /\ population[2].masked
  /\ population[2].vaccination_doses >= 2
  /\ RLess(Zero, chance) /\ RLess(chance, One)

\* ------------------------------------------------------------------ C13
\* the pairs that differ from pair by one more protective factor: a mask on
\* either person, or more doses for the susceptible person
MoreProtected(pair) ==
  {<<[pair[1] EXCEPT !.masked = TRUE], pair[2]>>,
   <<pair[1], [pair[2] EXCEPT !.masked = TRUE]>>}
  \cup {<<pair[1], [pair[2] EXCEPT !.vaccination_doses = d]>> :
          d \in (pair[2].vaccination_doses + 1)..(MaxDoses + 1)}

\* C13: with all factors in [0, 1], masking the infectious person, masking
\* the susceptible person or raising the susceptible person's number of doses
\* never yields a larger result.
C13_MonotoneInProtection ==
  pc = "chance returned" /\ FactorsInUnit(cfg) =>
    \A pair \in MoreProtected(population) :
      RLeq(calculate_infection_chance(cfg, pair[1], pair[2]), chance)

\* ------------------------------------------------------------------ C17
\* x to the power k, for the exponents a pair of masks can give
RPow(x, k) == IF k = 0 THEN One ELSE IF k = 1 THEN x ELSE RMul(x, x)

\* min(1, infection_rate * mask_effectiveness^(a+b) * v)
ClosedForm(c, infectious_person, susceptible_person) ==
  LET a == IF infectious_person.masked THEN 1 ELSE 0
      b == IF susceptible_person.masked THEN 1 ELSE 0
      v == IF susceptible_person.vaccination_doses = 1
             THEN c.partial_vaccine_effectiveness
           ELSE IF susceptible_person.vaccination_doses >= 2
             THEN c.full_vaccine_effectiveness
           ELSE One
      product == RMul(RMul(c.infection_rate, RPow(c.mask_effectiveness, a + b)), v)
  IN  IF RLeq(One, product) THEN One ELSE product

\* C17: calculate_infection_chance returns min(1, infection_rate *
\* mask_effectiveness^(a+b) * v), a and b counting the masks of the infectious
\* and of the susceptible person, v the partial effectiveness for exactly one
\* dose, the full one for two or more and 1 for none; the doses of the
\* infectious person do not matter; the call changes no state and draws
\* nothing from the random source.
C17_ClosedForm ==
  /\ [](pc = "chance returned" =>
          /\ REq(chance, ClosedForm(cfg, population[1], population[2]))
          /\ \A d \in 0..(MaxDoses + 1) :
               REq(chance,
                   calculate_infection_chance(
                     cfg, [population[1] EXCEPT !.vaccination_doses = d],
                     population[2])))
  /\ [][pc' = "chance returned" =>
          /\ population' = population
          /\ rng' = rng
          /\ <<cfg, day, recorded, simulated>>' = <<cfg, day, recorded, simulated>>]_vars

\* both masked, more than two doses for the susceptible person, a vaccinated
\* infectious person, and a result that is neither 0 nor the bare rate
C17_Witness ==
  /\ pc = "chance returned"
  /\ population[1].masked /\ population[2].masked
  /\ population[1].vaccination_doses >= 1
  /\ population[2].vaccination_doses > 2
  /\ RLess(Zero, chance) /\ RLess(chance, cfg.infection_rate)

\* ------------------------------------------------------- reading the calls
\* the places of the calls of operation op, and of those made for person who
Ops(op) == {k \in DOMAIN calls : calls[k].op = op}
At(op, who) == {k \in Ops(op) : calls[k].who = who}
Once(op, who) == Cardinality(At(op, who)) = 1
Idx(op, who) == CHOOSE k \in At(op, who) : TRUE

\* simulate_day has returned and its calls are all written down
DayComplete == tracing /\ pc \in {"record", "check", "yield", "done"}

\* ------------------------------------------------------------------ C14
Alone(c) == c.population_size = 1 /\ NumInitialInfected(c) = 1

\* C14: with one person who is the initial case, that person goes through
\* the disease alone: no contact is ever sampled and no roll made, the
\* person is infected for incubation_period days, infectious for
\* infectious_period days, and the run ends when simulate_day has been
\* executed incubation_period + infectious_period times.
C14_SinglePerson ==
  Constructed /\ Alone(cfg) =>
    LET \* the updates the person has been through
        updates == IF pc \in {"policies", "interact"} THEN simulated + 1 ELSE simulated
        total == cfg.incubation_period + cfg.infectious_period
    IN  /\ Ops("sample") = {} /\ Ops("roll") = {}
        /\ simulated <= total
        /\ day <= total - 1
        /\ updates < cfg.incubation_period => population[1].status = Infected
        /\ cfg.incubation_period <= updates /\ updates < total =>
             population[1].status = Infectious
        /\ updates >= total => population[1].status \in {Recovered, Dead}
        /\ pc = "done" => simulated = total /\ day = total - 1

\* the single person's run has ended after the longest periods
C14_Witness ==
  /\ tracing /\ pc = "done" /\ Alone(cfg)
  /\ cfg.incubation_period = MaxPeriod /\ cfg.infectious_period = MaxPeriod
  /\ simulated = 2 * MaxPeriod
  /\ Ops("pools") # {}

\* ------------------------------------------------------------------ C15
\* the phase of simulate_day an operation belongs to
PhaseOf(op) ==
  CASE op = "update_health_status" -> 1
    [] op \in {"mask_policy", "dist_policy"} -> 2
    [] op = "vac_policy" -> 3
    [] OTHER -> 4

\* the per-person policy op is called once for each person when it is
\* configured, and never when it is not
OncePerPerson(op, configured) ==
  IF configured THEN \A i \in DOMAIN population : Once(op, i) ELSE Ops(op) = {}

\* C15: simulate_day updates the health of every person, then applies the
\* policies, then runs the interaction phase.  The mask policy and then the
\* distancing policy are each called exactly once per person, person by
\* person in population order, when configured; the vaccination policy is
\* called exactly once, after all per-person calls and before the pool is
\* built or any contact sampled.
C15_OrderOfTheDay ==
  DayComplete =>
    /\ \A i \in DOMAIN population : Once("update_health_status", i)
    /\ OncePerPerson("mask_policy", cfg.mask_policy)
    /\ OncePerPerson("dist_policy", cfg.dist_policy)
    /\ IF cfg.vac_policy THEN Once("vac_policy", 0) ELSE Ops("vac_policy") = {}
    /\ Once("pools", 0)
    /\ \A j, k \in DOMAIN calls :
         /\ PhaseOf(calls[j].op) < PhaseOf(calls[k].op) => j < k
         /\ PhaseOf(calls[j].op) = PhaseOf(calls[k].op) /\ PhaseOf(calls[j].op) <= 2
            /\ calls[j].who < calls[k].who => j < k
         /\ calls[j].op = "mask_policy" /\ calls[k].op = "dist_policy"
            /\ calls[j].who = calls[k].who => j < k

\* a day with all three policies on which a contact was sampled
C15_Witness ==
  /\ DayComplete
  /\ cfg.mask_policy /\ cfg.dist_policy /\ cfg.vac_policy
  /\ Len(population) >= 2
  /\ Ops("sample") # {}
  /\ Idx("vac_policy", 0) = Idx("dist_policy", Len(population)) + 1

\* ------------------------------------------------------------------ C16
\* the step that built the pools at the start of the interaction phase
Pools == calls[Idx("pools", 0)]

\* floor(k * x): the largest integer m with m <= k * x
FloorOfProduct(k, x) ==
  CHOOSE m \in 0..(k * x.n) : m * x.d <= k * x.n /\ (m + 1) * x.d > k * x.n

\* the contacts person i asks for: base_contacts, or
\* floor(base_contacts * social_distancing_rate) when distancing
WantedContacts(i) ==
  IF population[i].social_distancing
    THEN FloorOfProduct(cfg.base_contacts, cfg.social_distancing_rate)
    ELSE cfg.base_contacts

\* C16: the pool is the persons susceptible at the start of the interaction
\* phase; every person infectious then samples min(max(1, c), S) contacts,
\* S the size of that pool and c the contacts the person asks for; the
\* contacts are pairwise distinct members of the pool; with S = 0 the person
\* is skipped: no sample, no roll.
C16_NumberOfContacts ==
  DayComplete =>
    LET pool == Pools.whom
        S == Len(pool)
    IN  /\ Range(pool) = {i \in DOMAIN population : Pools.snap[i] = Susceptible}
        /\ \A i \in DOMAIN population :
             IF Pools.snap[i] = Infectious /\ S > 0
               THEN /\ Once("sample", i)
                    /\ LET contacts == calls[Idx("sample", i)].whom
                            wanted == IF WantedContacts(i) >= 1 THEN WantedContacts(i) ELSE 1
                       IN  /\ Len(contacts) = (IF wanted <= S THEN wanted ELSE S)
                           /\ \A j, k \in DOMAIN contacts :
                                j # k => contacts[j] # contacts[k]
                           /\ Range(contacts) \subseteq Range(pool)
                           /\ Cardinality(At("roll", i)) = Len(contacts)
               ELSE At("sample", i) = {} /\ At("roll", i) = {}

\* a distancing person sampled one contact out of a pool of two although
\* base_contacts is two
C16_Witness ==
  /\ DayComplete
  /\ cfg.base_contacts = 2
  /\ Len(Pools.whom) = 2
  /\ \E i \in DOMAIN population :
       /\ population[i].social_distancing
       /\ At("sample", i) # {}
       /\ Len(calls[Idx("sample", i)].whom) = 1


\* ------------------------------------------------------------------ C18
\* the successful rolls of today against the person at position sp
Hits(sp) == {k \in Ops("roll") : calls[k].hit /\ calls[k].whom = <<sp>>}

\* C18: the pool is fixed at the start of the interaction phase while an
\* infection takes effect at once, so a person one infectious person has
\* infected can be sampled and rolled against again the same day; a further
\* successful attempt leaves the person exactly as the first infection left
\* it and changes no other person.
C18_RepeatedInfectionIdempotent ==
  DayComplete =>
    \A sp \in DOMAIN population :
      \A first, again \in Hits(sp) :
        (first < again /\ \A k \in Hits(sp) : first <= k) =>
          /\ calls[again].before = calls[first].after
          /\ calls[again].after = calls[first].after
          /\ calls[again].changed = {}
          /\ population[sp] = calls[first].after

\* two infectious persons each sampled the same susceptible person and both
\* rolls succeeded
C18_Witness ==
  /\ DayComplete
  /\ \E sp \in DOMAIN population :
       \E first, again \in Hits(sp) :
         /\ first < again
         /\ calls[first].who # calls[again].who
         /\ calls[first].before.status = Susceptible
         /\ calls[again].before.status = Infected
         /\ sp \in Range(Pools.whom)

\* ------------------------------------------------------------------ C19
\* the persons a successful roll of today turned from susceptible to infected
InfectedToday == UNION {calls[k].changed : k \in Ops("roll")}

\* C19: only persons who are infectious once the day's health update and
\* policies are done sample contacts; a person infected during the
\* interaction phase is never a source that same day; every person the
\* engine rolls against was susceptible at the start of the interaction phase.
C19_SourcesAndTargets ==
  DayComplete =>
    /\ \A k \in Ops("sample") \cup Ops("roll") :
         /\ Pools.snap[calls[k].who] = Infectious
         /\ calls[k].who \notin InfectedToday
         /\ \A sp \in Range(calls[k].whom) : Pools.snap[sp] = Susceptible
    /\ \A sp \in InfectedToday :
         /\ population[sp].status = Infected
         /\ At("sample", sp) = {} /\ At("roll", sp) = {}
    /\ Idx("pools", 0) > 0
    /\ \A k \in Ops("sample") \cup Ops("roll") : k > Idx("pools", 0)
    /\ \A k \in DOMAIN calls : k < Idx("pools", 0) => PhaseOf(calls[k].op) <= 3

\* the first person infected the second while a third, infectious too, came
\* later in population order: the loop went on past the newly infected person
C19_Witness ==
  /\ DayComplete
  /\ Len(population) = 3
  /\ 2 \in InfectedToday
  /\ \E k \in Hits(2) : calls[k].who = 1
  /\ Pools.snap[3] = Infectious
  /\ population[2].status = Infected

\* ------------------------------------------------------------------ C20
NoInitialCase == Constructed /\ NumInitialInfected(cfg) = 0

\* C20: when the number of initial cases resolves to 0, run() executes
\* simulate_day exactly once, with the configured policies called and the
\* collector told of day 0, and then ends at once: day is still 0, run()
\* never yields, and every person is still susceptible.
C20_NoInitialCase ==
  /\ [](NoInitialCase =>
          /\ day = 0
          /\ pc # "yield"
          /\ Len(population) = cfg.population_size
          /\ \A i \in DOMAIN population : population[i].status = Susceptible
          /\ simulated = (IF pc \in {"record", "check", "done"} THEN 1 ELSE 0)
          /\ recorded = (IF pc \in {"check", "done"} /\ cfg.statistics_collector
                           THEN <<0>> ELSE << >>)
          /\ DayComplete =>
               /\ OncePerPerson("mask_policy", cfg.mask_policy)
               /\ OncePerPerson("dist_policy", cfg.dist_policy)
               /\ cfg.vac_policy => Once("vac_policy", 0)
               /\ Ops("sample") = {} /\ Ops("roll") = {})
  /\ [][NoInitialCase /\ pc = "check" => pc' = "done" /\ day' = 0]_vars
  /\ [](NoInitialCase /\ pc # "done" => CanStep)

\* a run without initial case has ended after one day on which all three
\* policies were called and the day was recorded
C20_Witness ==
  /\ NoInitialCase /\ tracing
  /\ pc = "done"
  /\ cfg.mask_policy /\ cfg.dist_policy /\ cfg.vac_policy
  /\ Len(population) = 2
  /\ Once("mask_policy", 2) /\ Once("dist_policy", 2) /\ Once("vac_policy", 0)
  /\ recorded = <<0>>
  /\ simulated = 1

====
